---- MODULE Spec2Model ----
(***************************************************************************)
(* Model of the list-editing plugin (module list/listediting): the Enter   *)
(* and Backspace handlers, the Tab / Shift+Tab keystroke handlers and the  *)
(* list utilities (areRepresentingSameList, isListBlock,                   *)
(* findListBlocksInListItem).                                              *)
(*                                                                         *)
(* The document is one root whose children are blocks.  A block is named   *)
(* by its index among the root's children; Null stands for null/undefined. *)
(* A block holds at most TextLen characters of text and no inline element. *)
(***************************************************************************)
EXTENDS Integers, Sequences, FiniteSets, TLC

\* Bounds of the model.
MaxBlocks == 3      \* blocks in the root (key-handling specifications)
MaxSiblings == 4    \* blocks in the root (utility specification)
MaxIds == 2         \* distinct listItemId values in an initial document
MaxUids == 2        \* calls of uid() in one behaviour
TextLen == 1        \* characters in a non-empty block

\* Absent values.
Null == 0           \* null / undefined element
NoId == 0           \* getAttribute( 'listItemId' ) of a block without it
NoIndent == -1      \* getAttribute( 'listIndent' ) of a block without it
NoType == "none"    \* getAttribute( 'listType' ) of a block without it

Names == {"listItem", "paragraph"}

VARIABLES doc, selection, uids, evt, ret

vars == <<doc, selection, uids, evt, ret>>

----------------------------------------------------------------------------
\* Blocks and documents.

PlainBlocks ==
    [name : Names, listItemId : {NoId}, listIndent : {NoIndent},
     listType : {NoType}, isEmpty : BOOLEAN]

\* The list blocks of an initial document: bulleted, not nested.
ListBlocks ==
    [name : Names, listItemId : 1..MaxIds, listIndent : {0},
     listType : {"bulleted"}, isEmpty : BOOLEAN]

\* The documents of at most n blocks.
Docs(n) == UNION {[1..k -> PlainBlocks \cup ListBlocks] : k \in 1..n}

maxOffset(d, e) == IF d[e].isEmpty THEN 0 ELSE TextLen

previousSibling(d, e) == IF e > 1 THEN e - 1 ELSE Null

\* Positions and the selection.  A position is (parent block, offset in it).
NoPosition == [parent |-> Null, offset |-> 0]

Positions(d) ==
    {[parent |-> e, offset |-> o] : e \in 1..Len(d), o \in 0..TextLen}
        \ {[parent |-> e, offset |-> TextLen] : e \in {x \in 1..Len(d) : d[x].isEmpty}}

\* The ranges a selection is made of: none, one collapsed range, or one
\* range from the start of a block to the end of the same or a later block.
Selections(d) ==
    {<<>>}
    \cup {<<[start |-> p, end |-> p]>> : p \in Positions(d)}
    \cup {<<[start |-> [parent |-> i, offset |-> 0],
             end |-> [parent |-> j, offset |-> maxOffset(d, j)]]>> :
            <<i, j>> \in {x \in (1..Len(d)) \X (1..Len(d)) :
                            x[1] < x[2] \/ (x[1] = x[2] /\ ~d[x[1]].isEmpty)}}

isCollapsed(sel) == Len(sel) = 1 /\ sel[1].start = sel[1].end

getFirstPosition(sel) == IF Len(sel) = 0 THEN NoPosition ELSE sel[1].start

getLastPosition(sel) == IF Len(sel) = 0 THEN NoPosition ELSE sel[Len(sel)].end

isAtStart(position) == position.offset = 0

----------------------------------------------------------------------------
\* List utilities.

\* element.hasAttribute( 'listItemId' )
isListBlock(d, element) == d[element].listItemId # NoId

\* The result of a call is a value, or a TypeError raised by reading a
\* property of null.
Returns(v) == [threw |-> FALSE, value |-> v]
TypeError == [threw |-> TRUE, value |-> FALSE]

\* Variant: a missing blockB counts as the same list.
areRepresentingSameListMissingIsSame(d, blockA, blockB) ==
    IF blockB = Null THEN Returns(TRUE)
    ELSE IF blockA = Null THEN TypeError
    ELSE Returns(d[blockA].listItemId = d[blockB].listItemId)

areRepresentingSameList(d, blockA, blockB) ==
    IF blockB = Null THEN Returns(FALSE)
    ELSE IF blockA = Null THEN TypeError
    ELSE Returns(d[blockA].listItemId = d[blockB].listItemId)

\* Variant: the backward run is not reversed.
ReverseOmitted(s) == s

Reverse(s) == [k \in 1..Len(s) |-> s[Len(s) + 1 - k]]

\* The values a shallow tree walker without boundaries yields from
\* `position` with ignoreElementEnd: the text of the position's parent that
\* lies in the direction walked, then (backward only) the parent itself as
\* the walker leaves it through its start, then every sibling up to the end
\* of the root.
TreeWalker(d, position, direction) ==
    LET p == position.parent
        text == <<[type |-> "text", item |-> Null]>>
    IN  IF direction = "forward"
        THEN (IF position.offset < maxOffset(d, p) THEN text ELSE <<>>)
                \o [k \in 1..(Len(d) - p) |-> [type |-> "elementStart", item |-> p + k]]
        ELSE (IF position.offset > 0 THEN text ELSE <<>>)
                \o [k \in 1..p |-> [type |-> "elementStart", item |-> p + 1 - k]]

isElement(value) == value.type = "elementStart"

items(values) == [k \in 1..Len(values) |-> values[k].item]

\* Variant: the scan stops at the first element whose listItemId differs.
getSimilarListItemStopping(d, position, direction) ==
    LET listItemId == d[position.parent].listItemId
        elements == items(SelectSeq(TreeWalker(d, position, direction), isElement))
        differing == {k \in 1..Len(elements) : d[elements[k]].listItemId # listItemId}
        stop == IF differing = {} THEN Len(elements) + 1
                ELSE CHOOSE k \in differing : \A j \in differing : k <= j
    IN  SubSeq(elements, 1, stop - 1)

getSimilarListItem(d, position, direction) ==
    LET listItemId == d[position.parent].listItemId
        elements == items(SelectSeq(TreeWalker(d, position, direction), isElement))
        same(element) == d[element].listItemId = listItemId
    IN  SelectSeq(elements, same)

findListBlocksInListItem(d, position) ==
    Reverse(getSimilarListItem(d, position, "backward"))
        \o getSimilarListItem(d, position, "forward")

----------------------------------------------------------------------------
\* The indentList / outdentList commands (IndentCommand).

IndentCommandIsEnabled(d, sel) ==
    Len(sel) > 0 /\ isListBlock(d, getFirstPosition(sel).parent)

IndentCommandExecute(d, sel, indentDirection) ==
    LET block == getFirstPosition(sel).parent
        prev == previousSibling(d, block)
        indent == d[block].listIndent
    IN  IF indentDirection = "forward"
        THEN IF prev # Null /\ isListBlock(d, prev) /\ indent + 1 <= d[prev].listIndent + 1
             THEN [d EXCEPT ![block].listIndent = indent + 1]
             ELSE d
        ELSE IF indent - 1 < 0
             THEN [d EXCEPT ![block].listItemId = NoId,
                            ![block].listIndent = NoIndent,
                            ![block].listType = NoType]
             ELSE [d EXCEPT ![block].listIndent = indent - 1]

commandDirection(commandName) ==
    IF commandName = "indentList" THEN "forward" ELSE "backward"

\* editor.execute( commandName ): a disabled command executes nothing.
execute(d, sel, commandName) ==
    IF IndentCommandIsEnabled(d, sel)
    THEN IndentCommandExecute(d, sel, commandDirection(commandName))
    ELSE d

\* uid(): the n-th identifier generated, different from every earlier one
\* and from every identifier of the initial document.
uid(n) == MaxIds + n + 1

----------------------------------------------------------------------------
\* Key handling.  A handler's outcome: the document it leaves, the commands
\* it invoked, the listItemId writes it made itself, what it did to the
\* event, how many identifiers it drew and whether it raised an error.

\* Variant: evt.stop() is never called.
OutcomeNeverStopped(d, executed, wrote, suppressed, drawn, threw) ==
    [doc |-> d, executed |-> executed, wrote |-> wrote,
     prevented |-> suppressed, stopped |-> FALSE,
     uids |-> drawn, threw |-> threw]

Outcome(d, executed, wrote, suppressed, drawn, threw) ==
    [doc |-> d, executed |-> executed, wrote |-> wrote,
     prevented |-> suppressed, stopped |-> suppressed,
     uids |-> drawn, threw |-> threw]

Declined(d) == Outcome(d, <<>>, <<>>, FALSE, 0, FALSE)

Raised(d) == Outcome(d, <<>>, <<>>, FALSE, 0, TRUE)

\* Variant: the attribute is written on the previous sibling.
setListItemIdOnPrevious(d, element, value) ==
    [d EXCEPT ![element - 1].listItemId = value]

\* writer.setAttribute( 'listItemId', value, element )
setListItemId(d, element, value) == [d EXCEPT ![element].listItemId = value]

\* Variant: the test that the block is the last one of its item is dropped.
isLastBlockItemDropped(allBlockItems, positionParent) == TRUE

\* lastBlockItem === positionParent
isLastBlockItem(allBlockItems, positionParent) ==
    allBlockItems[Len(allBlockItems)] = positionParent

getEnterHandlingCallback(d, sel, n) ==
    LET position == getLastPosition(sel)
    IN  IF position = NoPosition THEN Raised(d)
        ELSE
        LET positionParent == position.parent
        IN  IF ~isCollapsed(sel) THEN Declined(d)
            ELSE IF ~d[positionParent].isEmpty THEN Declined(d)
            ELSE IF ~isListBlock(d, positionParent) THEN Declined(d)
            ELSE
            LET allBlockItems == findListBlocksInListItem(d, position)
            IN  IF /\ areRepresentingSameList(d, positionParent,
                                              previousSibling(d, positionParent)).value
                   /\ isLastBlockItem(allBlockItems, positionParent)
                THEN Outcome(setListItemId(d, positionParent, uid(n)),
                             <<>>, <<[block |-> positionParent, listItemId |-> uid(n)]>>,
                             TRUE, 1, FALSE)
                ELSE IF Len(allBlockItems) = 1
                THEN Outcome(execute(d, sel, "outdentList"),
                             <<"outdentList">>, <<>>, TRUE, 0, FALSE)
                ELSE Declined(d)

getDeleteHandlingCallback(d, sel, direction) ==
    IF direction # "backward" THEN Declined(d)
    ELSE IF ~isCollapsed(sel) THEN Declined(d)
    ELSE
    LET firstPosition == getFirstPosition(sel)
    IN  IF ~isAtStart(firstPosition) THEN Declined(d)
        ELSE
        LET positionParent == firstPosition.parent
            prev == previousSibling(d, positionParent)
            previousIsAListItem == prev # Null /\ d[prev].name = "listItem"
        IN  IF d[positionParent].name # "listItem" THEN Declined(d)
            ELSE IF previousIsAListItem THEN Declined(d)
            ELSE Outcome(execute(d, sel, "outdentList"),
                         <<"outdentList">>, <<>>, TRUE, 0, FALSE)

\* Variant: the command is executed whether or not it is enabled.
getCommandExecuterUnconditional(d, sel, commandName) ==
    Outcome(execute(d, sel, commandName), <<commandName>>, <<>>, TRUE, 0, FALSE)

\* The Tab / Shift+Tab keystroke callback; cancel() prevents the default
\* action of the key and stops its propagation.
getCommandExecuter(d, sel, commandName) ==
    IF IndentCommandIsEnabled(d, sel)
    THEN Outcome(execute(d, sel, commandName), <<commandName>>, <<>>, TRUE, 0, FALSE)
    ELSE Declined(d)

----------------------------------------------------------------------------
\* State.  evt records the last key event dispatched and what its handler
\* did; ret records the last call of a list utility.

NoEvent ==
    [name |-> "none", direction |-> "none", before |-> <<>>, executed |-> <<>>,
     wrote |-> <<>>, prevented |-> FALSE, stopped |-> FALSE, threw |-> FALSE]

Event(name, direction, before, o) ==
    [name |-> name, direction |-> direction, before |-> before,
     executed |-> o.executed, wrote |-> o.wrote, prevented |-> o.prevented,
     stopped |-> o.stopped, threw |-> o.threw]

NoCall == [fn |-> "none", args |-> <<>>, result |-> <<>>]

Init ==
    /\ doc \in Docs(MaxBlocks)
    /\ selection \in Selections(doc)
    /\ uids = 0
    /\ evt = NoEvent
    /\ ret = NoCall

Dispatch(name, direction, o) ==
    /\ uids + o.uids <= MaxUids
    /\ doc' = o.doc
    /\ uids' = uids + o.uids
    /\ evt' = Event(name, direction, doc, o)
    /\ UNCHANGED <<selection, ret>>

Enter == Dispatch("enter", "none", getEnterHandlingCallback(doc, selection, uids))

Delete ==
    \E direction \in {"backward", "forward"} :
        Dispatch("delete", direction, getDeleteHandlingCallback(doc, selection, direction))

Tab == Dispatch("Tab", "none", getCommandExecuter(doc, selection, "indentList"))

ShiftTab == Dispatch("Shift+Tab", "none", getCommandExecuter(doc, selection, "outdentList"))

Next == Enter \/ Delete

Spec == Init /\ [][Next]_vars

NextKeystrokes == Tab \/ ShiftTab

SpecKeystrokes == Init /\ [][NextKeystrokes]_vars

----------------------------------------------------------------------------
\* Calls of the list utilities on the blocks of a document.

\* The utilities read only listItemId and whether a block has text.
UtilityBlocks == {b \in PlainBlocks \cup ListBlocks : b.name = "paragraph"}

InitUtilities ==
    /\ doc \in UNION {[1..k -> UtilityBlocks] : k \in 1..MaxSiblings}
    /\ selection = <<>>
    /\ uids = 0
    /\ evt = NoEvent
    /\ ret = NoCall

Call(fn, args, result) ==
    /\ ret' = [fn |-> fn, args |-> args, result |-> result]
    /\ UNCHANGED <<doc, selection, uids, evt>>

\* Called with two blocks, or with at least one block absent.
CallAreRepresentingSameList ==
    \/ \E blockA, blockB \in 1..Len(doc) :
          Call("areRepresentingSameList", <<blockA, blockB>>,
               areRepresentingSameList(doc, blockA, blockB))
    \/ \E blockA, blockB \in {Null} \cup (1..Len(doc)) :
          /\ blockA = Null \/ blockB = Null
          /\ Call("areRepresentingSameList", <<blockA, blockB>>,
                  areRepresentingSameList(doc, blockA, blockB))

CallIsListBlock ==
    \E element \in 1..Len(doc) :
        Call("isListBlock", <<element>>, isListBlock(doc, element))

CallFindListBlocksInListItem ==
    \E position \in Positions(doc) :
        Call("findListBlocksInListItem", <<position>>,
             findListBlocksInListItem(doc, position))

NextUtilities == CallIsListBlock \/ CallFindListBlocksInListItem

SpecUtilities == InitUtilities /\ [][NextUtilities]_vars

NextSameList == CallIsListBlock \/ CallAreRepresentingSameList

SpecSameList == InitUtilities /\ [][NextSameList]_vars

----------------------------------------------------------------------------
\* Vocabulary of the properties.

\* The blocks of the list item `id`: the blocks carrying that listItemId.
ItemBlocks(d, id) == {e \in 1..Len(d) : d[e].listItemId = id}

ListItemIds(d) == {d[e].listItemId : e \in 1..Len(d)} \ {NoId}

\* The elements of a set of blocks in document order.
Ascending(S) ==
    [k \in 1..Cardinality(S) |->
        CHOOSE e \in S : Cardinality({x \in S : x < e}) = k - 1]

\* The maximal run of consecutive siblings around e that carry e's listItemId.
RunAround(d, e) ==
    {x \in 1..Len(d) :
        \A k \in (IF x < e THEN x ELSE e)..(IF x < e THEN e ELSE x) :
            d[k].listItemId = d[e].listItemId}

\* The blocks of every listItemId form one run of consecutive siblings.
Contiguous(d) ==
    \A e \in 1..Len(d) :
        isListBlock(d, e) => ItemBlocks(d, d[e].listItemId) = RunAround(d, e)

\* The caret is in an empty list block.
CaretInEmptyListBlock(d, sel) ==
    /\ isCollapsed(sel)
    /\ d[sel[1].start.parent].isEmpty
    /\ isListBlock(d, sel[1].start.parent)

CaretBlock == selection[1].start.parent

EnterDispatched == evt.name = "enter"

DeleteDispatched == evt.name = "delete"

Applied == evt.wrote # <<>> \/ evt.executed # <<>>

----------------------------------------------------------------------------
\* Enter handled by the identity-assignment branch only, from documents
\* whose list items are contiguous.

InitSplit == Init /\ Contiguous(doc)

\* The user moves the caret or changes the selection.
Select ==
    /\ selection' \in Selections(doc)
    /\ evt' = NoEvent
    /\ UNCHANGED <<doc, uids, ret>>

EnterSplit == Enter /\ evt'.wrote # <<>>

NextSplit == EnterSplit \/ Select

SpecSplit == InitSplit /\ [][NextSplit]_vars

----------------------------------------------------------------------------
\* Properties of the Enter handler.

\* The caret is in an empty list block that is the last block of its item
\* and has the listItemId of its previous sibling.
EnterSplitCase(d, sel) ==
    /\ CaretInEmptyListBlock(d, sel)
    /\ LET P == sel[1].start.parent
       IN  /\ P > 1
           /\ d[P - 1].listItemId = d[P].listItemId
           /\ \A e \in ItemBlocks(d, d[P].listItemId) : e <= P

\* C1: Enter in an empty list block that is the last block of its item and
\* has the listItemId of its previous sibling gives that block a listItemId
\* no block had before the keypress, and changes nothing else: every other
\* listItemId, every listIndent and listType, and the blocks themselves are
\* as before.
C1_EnterAssignsFreshId ==
    (EnterDispatched /\ EnterSplitCase(evt.before, selection)) =>
        /\ isListBlock(doc, CaretBlock)
        /\ doc[CaretBlock].listItemId \notin ListItemIds(evt.before)
        /\ [doc EXCEPT ![CaretBlock].listItemId = evt.before[CaretBlock].listItemId]
              = evt.before

C1_Witness ==
    /\ EnterDispatched
    /\ EnterSplitCase(evt.before, selection)
    /\ Len(doc) = 3
    /\ Cardinality(ListItemIds(evt.before)) = 2

\* The caret is in an empty list block that is the only block of its item.
EnterOnlyBlockCase(d, sel) ==
    /\ CaretInEmptyListBlock(d, sel)
    /\ ItemBlocks(d, d[sel[1].start.parent].listItemId) = {sel[1].start.parent}

\* C2: Enter in an empty list block that is the only block of its item
\* invokes outdentList exactly once and writes no listItemId itself,
\* whatever the previous sibling is.
C2_EnterOutdentsOnlyBlock ==
    (EnterDispatched /\ EnterOnlyBlockCase(evt.before, selection)) =>
        /\ evt.executed = <<"outdentList">>
        /\ evt.wrote = <<>>

C2_Witness ==
    /\ EnterDispatched
    /\ EnterOnlyBlockCase(evt.before, selection)
    /\ CaretBlock > 1
    /\ isListBlock(evt.before, CaretBlock - 1)
    /\ evt.executed = <<"outdentList">>

\* Enter in an empty list block of an item of several blocks, where the
\* block is not the last of the item, or is the last but follows a block
\* with another listItemId.
EnterLeftToDefaultCase(d, sel) ==
    /\ CaretInEmptyListBlock(d, sel)
    /\ LET P == sel[1].start.parent
           item == ItemBlocks(d, d[P].listItemId)
       IN  /\ Cardinality(item) > 1
           /\ \/ \E e \in item : e > P
              \/ P > 1 /\ d[P - 1].listItemId # d[P].listItemId

\* C4: an Enter or Backspace handler that applies an action (a listItemId
\* write or a command invocation) prevents the default and stops the event;
\* one that applies none does neither and leaves the document as it was.
\* Enter in an empty block that is not the last of a multi-block item, or is
\* the last but follows a block of another item, applies no action.
C4_SuppressesIffApplied ==
    (EnterDispatched \/ DeleteDispatched) =>
        /\ Applied => (evt.prevented /\ evt.stopped)
        /\ ~Applied => (~evt.prevented /\ ~evt.stopped /\ doc = evt.before)
        /\ (EnterDispatched /\ EnterLeftToDefaultCase(evt.before, selection)) => ~Applied

C4_Witness ==
    /\ EnterDispatched
    /\ EnterLeftToDefaultCase(evt.before, selection)
    /\ CaretBlock = Len(doc)
    /\ ~evt.prevented

\* C6: from a document whose list items are contiguous, Enter keypresses
\* handled by the identity-assignment branch keep every list item contiguous.
C6_SplitKeepsContiguity == Contiguous(doc)

C6_Witness ==
    /\ EnterDispatched
    /\ uids = 2
    /\ Cardinality(ListItemIds(doc)) = 3

\* An expected edge case of the Enter handler: no range, a non-collapsed
\* selection, a non-empty block or a block without listItemId.
EnterEdgeCase(d, sel) ==
    \/ Len(sel) = 0
    \/ ~isCollapsed(sel)
    \/ ~d[sel[1].end.parent].isEmpty
    \/ ~isListBlock(d, sel[1].end.parent)

\* An expected edge case of the Backspace handler: no range, a non-collapsed
\* selection or a block without listItemId (the emptiness of the block is a
\* precondition of the Enter rows of the decision table only).
DeleteEdgeCase(d, sel) ==
    \/ Len(sel) = 0
    \/ ~isCollapsed(sel)
    \/ ~isListBlock(d, sel[1].start.parent)

\* C7: in an expected edge case the Enter and Backspace handlers return
\* without an error, without touching the document and without suppressing
\* the default action.
C7_EdgeCasesDeclined ==
    (\/ EnterDispatched /\ EnterEdgeCase(evt.before, selection)
     \/ DeleteDispatched /\ DeleteEdgeCase(evt.before, selection)) =>
        (~evt.threw /\ doc = evt.before /\ ~evt.prevented /\ ~evt.stopped)

----------------------------------------------------------------------------
\* Properties of the Backspace handler.

\* Backward delete with the caret at the start of a list block that no list
\* block precedes.
BackspaceOutdentCase(d, sel, direction) ==
    /\ direction = "backward"
    /\ isCollapsed(sel)
    /\ isAtStart(sel[1].start)
    /\ isListBlock(d, sel[1].start.parent)
    /\ LET prev == previousSibling(d, sel[1].start.parent)
       IN  prev = Null \/ ~isListBlock(d, prev)

\* C3: Backspace with the caret at the start of a list block (a block with
\* listItemId) that no list block precedes invokes outdentList; in every
\* other case the handler invokes nothing.
C3_BackspaceOutdentsFirstListBlock ==
    DeleteDispatched =>
        IF BackspaceOutdentCase(evt.before, selection, evt.direction)
        THEN evt.executed = <<"outdentList">>
        ELSE evt.executed = <<>>

----------------------------------------------------------------------------
\* Properties of the Tab / Shift+Tab keystrokes.

KeystrokeCommand == IF evt.name = "Tab" THEN "indentList" ELSE "outdentList"

\* C5: Tab (Shift+Tab) executes indentList (outdentList) and consumes the
\* key exactly when the command is enabled at the keypress; when it is
\* disabled nothing is executed, the key is not cancelled and the document is
\* unchanged.
C5_KeystrokeExecutesIffEnabled ==
    evt.name \in {"Tab", "Shift+Tab"} =>
        IF IndentCommandIsEnabled(evt.before, selection)
        THEN /\ evt.executed = <<KeystrokeCommand>>
             /\ evt.prevented /\ evt.stopped
             /\ doc = IndentCommandExecute(evt.before, selection,
                                           commandDirection(KeystrokeCommand))
        ELSE /\ evt.executed = <<>>
             /\ ~evt.prevented /\ ~evt.stopped
             /\ doc = evt.before

C5_Witness ==
    /\ evt.name = "Tab"
    /\ evt.executed = <<"indentList">>
    /\ evt.prevented
    /\ doc # evt.before

----------------------------------------------------------------------------
\* Properties of the list utilities.

FindCalled == ret.fn = "findListBlocksInListItem"

FindBlock == ret.args[1].parent

\* C8: in a document whose list items are contiguous,
\* findListBlocksInListItem with a position in a block of an item returns
\* the blocks of the item, each once, in document order, and the same for a
\* position in any other block of the item.
C8_FindReturnsItemInOrder ==
    (FindCalled /\ Contiguous(doc) /\ isListBlock(doc, FindBlock)) =>
        LET item == ItemBlocks(doc, doc[FindBlock].listItemId)
        IN  /\ ret.result = Ascending(item)
            /\ \A q \in Positions(doc) :
                  q.parent \in item => findListBlocksInListItem(doc, q) = ret.result

C8_Witness ==
    /\ FindCalled
    /\ Contiguous(doc)
    /\ isListBlock(doc, FindBlock)
    /\ Len(ret.result) = 3
    /\ ret.result[2] = FindBlock
    /\ Len(doc) = 4

SameListCalled == ret.fn = "areRepresentingSameList"

\* C9: areRepresentingSameList returns false when either block is absent or
\* has no listItemId, otherwise whether the two listItemIds are equal; for
\* two blocks the result is the same with the arguments swapped.
C9_SameListNeedsListItemIds ==
    SameListCalled =>
        LET blockA == ret.args[1]
            blockB == ret.args[2]
            expected ==
                /\ blockA # Null /\ blockB # Null
                /\ isListBlock(doc, blockA) /\ isListBlock(doc, blockB)
                /\ doc[blockA].listItemId = doc[blockB].listItemId
        IN  /\ ret.result = Returns(expected)
            /\ (blockA # Null /\ blockB # Null) =>
                  areRepresentingSameList(doc, blockB, blockA) = ret.result

\* C10 as stated: each scan stops at the first sibling whose listItemId
\* differs, so findListBlocksInListItem returns the maximal run of
\* consecutive siblings around the position's block.
C10_FindReturnsRunAround ==
    (FindCalled /\ isListBlock(doc, FindBlock)) =>
        ret.result = Ascending(RunAround(doc, FindBlock))

\* What the Enter handler does with a caret at `position`.
EnterAt(position) ==
    getEnterHandlingCallback(doc, <<[start |-> position, end |-> position]>>, 0)

\* C10 as amended: each scan goes to the end of the root and keeps every
\* sibling with the listItemId of the position's block, so the result is
\* every block with that listItemId in document order, also the ones
\* beyond a sibling with another or no listItemId; the Enter handler's
\* "last block" and "only block" tests are about those blocks.
C10_FindReturnsAllWithSameId ==
    (FindCalled /\ isListBlock(doc, FindBlock)) =>
        LET item == ItemBlocks(doc, doc[FindBlock].listItemId)
        IN  /\ ret.result = Ascending(item)
            /\ doc[FindBlock].isEmpty =>
                  /\ EnterAt(ret.args[1]).executed # <<>> <=> item = {FindBlock}
                  /\ EnterAt(ret.args[1]).wrote # <<>> <=>
                        /\ FindBlock > 1
                        /\ doc[FindBlock - 1].listItemId = doc[FindBlock].listItemId
                        /\ \A e \in item : e <= FindBlock

C10_Witness ==
    /\ FindCalled
    /\ isListBlock(doc, FindBlock)
    /\ doc[FindBlock].isEmpty
    /\ ~Contiguous(doc)
    /\ Len(ret.result) = 2
    /\ ret.result # Ascending(RunAround(doc, FindBlock))

====
